---- MODULE Spec2Model ----
(***************************************************************************)
(* Model of nubank_analysis.py: normalisation and classification of the    *)
(* statement rows (limpar_e_processar_dados, categorizar_transacao), the   *)
(* per-month rollups of the console view and of the PDF report, and the    *)
(* overall-period summary of gerar_pdf_resumo and main.                    *)
(*                                                                         *)
(* Strings are sequences of one-character strings, so that lower-casing,   *)
(* substring search and the installment regular expression are computed.   *)
(* Amounts are integers (cents).  NaN is the integer -1, which no parsed   *)
(* installment number can equal (the pattern \d+ has no sign).             *)
(***************************************************************************)
EXTENDS Integers, Sequences, FiniteSets

VARIABLES pc, df, console, story, geral_pdf, geral_main

vars == <<pc, df, console, story, geral_pdf, geral_main>>

(***************************************************************************)
(* Bounds of the model                                                     *)
(***************************************************************************)
\* titles are concatenations of at most MaxFrags fragments
MaxFrags == 3
\* frames of mixed rows (types, months, bad dates) have at most MaxAggRows rows
MaxAggRows == 2
\* frames of same-month purchases have at most MaxTopRows rows
MaxTopRows == 6

(***************************************************************************)
(* Strings                                                                 *)
(***************************************************************************)
NaN == -1

\* a missing title (pandas NA): a value no text equals
NA == <<"<NA>">>

NaT == [year |-> 0, month |-> 0, day |-> 0]

ascii_uppercase ==
  <<"A", "B", "C", "D", "E", "F", "G", "H", "I", "J", "K", "L", "M", "N", "O", "P", "Q", "R", "S", "T", "U", "V", "W", "X", "Y", "Z">>

ascii_lowercase ==
  <<"a", "b", "c", "d", "e", "f", "g", "h", "i", "j", "k", "l", "m", "n", "o", "p", "q", "r", "s", "t", "u", "v", "w", "x", "y", "z">>

digits == {"0", "1", "2", "3", "4", "5", "6", "7", "8", "9"}

lower_char(c) ==
  IF \E i \in 1..Len(ascii_uppercase) : ascii_uppercase[i] = c
  THEN ascii_lowercase[CHOOSE i \in 1..Len(ascii_uppercase) : ascii_uppercase[i] = c]
  ELSE c

\* str.lower()
lower(s) == [i \in 1..Len(s) |-> lower_char(s[i])]

\* Python's `k in s`
Contains(s, k) ==
  \E i \in 0..(Len(s) - Len(k)) : SubSeq(s, i + 1, i + Len(k)) = k

isna(t) == t = NA

\* Series.str.contains(pat, case=False, na=False) for a pattern of plain letters
str_contains(title, pat) ==
  IF isna(title) THEN FALSE ELSE Contains(lower(title), lower(pat))

CATEGORIAS_PALAVRAS_CHAVE ==
  <<
     [categoria |-> "Supermercado",
      palavras  |-> <<
         <<"s", "u", "p", "e", "r", "m", "e", "r", "c", "a", "d", "o">>,   \* 'supermercado'
         <<"m", "a", "t", "e", "u", "s">>,   \* 'mateus'
         <<"m", "i", "x">>,   \* 'mix'
         <<"a", "t", "a", "c", "a", "d", "a", "o">>    \* 'atacadao'
      >>],
     [categoria |-> "Combustível",
      palavras  |-> <<
         <<"p", "o", "s", "t", "o">>,   \* 'posto'
         <<"c", "o", "m", "b", "u", "s", "t", "í", "v", "e", "l">>,   \* 'combustível'
         <<"g", "a", "s", "o", "l", "i", "n", "a">>,   \* 'gasolina'
         <<"s", "h", "e", "l", "l">>,   \* 'shell'
         <<"i", "p", "i", "r", "a", "n", "g", "a">>    \* 'ipiranga'
      >>],
     [categoria |-> "Farmácia",
      palavras  |-> <<
         <<"d", "r", "o", "g", "a", "r", "i", "a">>,   \* 'drogaria'
         <<"f", "a", "r", "m", "á", "c", "i", "a">>,   \* 'farmácia'
         <<"p", "a", "g", "u", "e", "m", "e", "n", "o", "s">>,   \* 'paguemenos'
         <<"d", "r", "o", "g", "a", "s", "i", "l">>    \* 'drogasil'
      >>],
     [categoria |-> "Alimentação",
      palavras  |-> <<
         <<"p", "i", "z", "z", "a", "r", "i", "a">>,   \* 'pizzaria'
         <<"e", "s", "p", "e", "t", "o">>,   \* 'espeto'
         <<"r", "e", "s", "t", "a", "u", "r", "a", "n", "t", "e">>,   \* 'restaurante'
         <<"i", "f", "o", "o", "d">>,   \* 'ifood'
         <<"l", "a", "n", "c", "h", "e">>,   \* 'lanche'
         <<"m", "c", "d", "o", "n", "a", "l", "d", "s">>,   \* 'mcdonalds'
         <<"b", "u", "r", "g", "e", "r", " ", "k", "i", "n", "g">>    \* 'burger king'
      >>],
     [categoria |-> "Serviços/Assinaturas",
      palavras  |-> <<
         <<"p", "a", "y", "p", "a", "l">>,   \* 'paypal'
         <<"c", "o", "n", "t", "a", "b", "o">>,   \* 'contabo'
         <<"a", "w", "s">>,   \* 'aws'
         <<"g", "o", "o", "g", "l", "e">>,   \* 'google'
         <<"u", "b", "e", "r">>,   \* 'uber'
         <<"9", "9">>,   \* '99'
         <<"s", "p", "o", "t", "i", "f", "y">>,   \* 'spotify'
         <<"n", "e", "t", "f", "l", "i", "x">>    \* 'netflix'
      >>],
     [categoria |-> "Transporte",
      palavras  |-> <<
         <<"u", "b", "e", "r">>,   \* 'uber'
         <<"9", "9">>,   \* '99'
         <<"p", "a", "s", "s", "a", "g", "e", "m">>,   \* 'passagem'
         <<"o", "n", "i", "b", "u", "s">>    \* 'onibus'
      >>],
     [categoria |-> "Casa",
      palavras  |-> <<
         <<"e", "n", "e", "r", "g", "i", "a">>,   \* 'energia'
         <<"a", "g", "u", "a">>,   \* 'agua'
         <<"a", "l", "u", "g", "u", "e", "l">>,   \* 'aluguel'
         <<"i", "n", "t", "e", "r", "n", "e", "t">>    \* 'internet'
      >>]
  >>

PAGAMENTO_RECEBIDO == <<"P", "a", "g", "a", "m", "e", "n", "t", "o", " ", "r", "e", "c", "e", "b", "i", "d", "o">>

IOF == <<"I", "O", "F">>

PARCELA == <<"P", "a", "r", "c", "e", "l", "a">>

\* the literal prefix of padrao_parcela, r'Parcela (\d+)/(\d+)', lower-cased
padrao_parcela == <<"p", "a", "r", "c", "e", "l", "a", " ">>

(***************************************************************************)
(* Classifier                                                              *)
(***************************************************************************)
\* any(palavra in titulo_lower for palavra in palavras)
any_palavra(titulo_lower, palavras) ==
  \E j \in 1..Len(palavras) : Contains(titulo_lower, palavras[j])

RECURSIVE categorizar_desde(_, _)
\* the for loop over CATEGORIAS_PALAVRAS_CHAVE.items(), from entry i on
categorizar_desde(titulo_lower, i) ==
  IF i > Len(CATEGORIAS_PALAVRAS_CHAVE) THEN "Outros"
  ELSE IF any_palavra(titulo_lower, CATEGORIAS_PALAVRAS_CHAVE[i].palavras)
       THEN CATEGORIAS_PALAVRAS_CHAVE[i].categoria
       ELSE categorizar_desde(titulo_lower, i + 1)

\* categorizar_transacao without the lower-casing of the title
categorizar_sem_lower(titulo) ==
  IF isna(titulo) THEN "Outros"
  ELSE categorizar_desde(titulo, 1)

categorizar_transacao(titulo) ==
  IF isna(titulo) THEN "Outros"
  ELSE categorizar_desde(lower(titulo), 1)

\* df['tipo'] = 'Compra', then the two .loc assignments, in their order
tipo_de(title) ==
  LET tipo0 == "Compra"
      tipo1 == IF str_contains(title, PAGAMENTO_RECEBIDO) THEN "Pagamento" ELSE tipo0
      tipo2 == IF str_contains(title, IOF) THEN "IOF" ELSE tipo1
  IN  tipo2

\* df['categoria'] = apply(categorizar_transacao), then categoria = tipo where
\* tipo != 'Compra'
categoria_de(title) ==
  LET tipo == tipo_de(title)
  IN  IF tipo # "Compra" THEN tipo ELSE categorizar_transacao(title)

(***************************************************************************)
(* Installment parser                                                      *)
(***************************************************************************)
RECURSIVE digit_run(_, _)
\* length of the longest run of digits of s that starts at position i (\d+ is
\* greedy)
digit_run(s, i) ==
  IF i <= Len(s) /\ s[i] \in digits THEN 1 + digit_run(s, i + 1) ELSE 0

\* whether padrao_parcela matches s at position i, ignoring case
match_at(s, i) ==
  /\ i + Len(padrao_parcela) - 1 <= Len(s)
  /\ lower(SubSeq(s, i, i + Len(padrao_parcela) - 1)) = padrao_parcela
  /\ LET a  == i + Len(padrao_parcela)
         n1 == digit_run(s, a)
     IN  /\ n1 >= 1
         /\ a + n1 <= Len(s)
         /\ s[a + n1] = "/"
         /\ digit_run(s, a + n1 + 1) >= 1

\* Series.str.extract(padrao_parcela, flags=re.IGNORECASE): the two groups of
\* the leftmost match, or NA for both
str_extract(title) ==
  IF isna(title) \/ ~ \E i \in 1..Len(title) : match_at(title, i)
  THEN <<NA, NA>>
  ELSE LET i  == CHOOSE k \in 1..Len(title) :
                   match_at(title, k) /\ \A l \in 1..(k - 1) : ~ match_at(title, l)
           a  == i + Len(padrao_parcela)
           n1 == digit_run(title, a)
           b  == a + n1 + 1
           n2 == digit_run(title, b)
       IN  <<SubSeq(title, a, a + n1 - 1), SubSeq(title, b, b + n2 - 1)>>

digit_value(c) ==
  CASE c = "0" -> 0 [] c = "1" -> 1 [] c = "2" -> 2 [] c = "3" -> 3 [] c = "4" -> 4
    [] c = "5" -> 5 [] c = "6" -> 6 [] c = "7" -> 7 [] c = "8" -> 8 [] c = "9" -> 9

RECURSIVE decimal(_)
decimal(ds) ==
  IF Len(ds) = 0 THEN 0
  ELSE 10 * decimal(SubSeq(ds, 1, Len(ds) - 1)) + digit_value(ds[Len(ds)])

\* pd.to_numeric(..., errors='coerce') of an extracted group
to_numeric(g) == IF isna(g) THEN NaN ELSE decimal(g)

(***************************************************************************)
(* Record normaliser                                                       *)
(***************************************************************************)
\* pd.to_datetime(..., errors='coerce') on the date strings of the inputs
to_datetime(d) ==
  CASE d = "2024-01-15" -> [year |-> 2024, month |-> 1, day |-> 15]
    [] d = "2024-01-31" -> [year |-> 2024, month |-> 1, day |-> 31]
    [] d = "2024-02-03" -> [year |-> 2024, month |-> 2, day |-> 3]
    [] OTHER -> NaT

\* Series.dt.to_period('M'): the ordinal of the month (months since 1970-01)
to_period(date) == (date.year - 1970) * 12 + (date.month - 1)

\* the columns limpar_e_processar_dados adds to a row whose date parsed
processar_linha(r) ==
  LET grupos == str_extract(r.title)
  IN  [index          |-> r.index,
       date           |-> r.date,
       title          |-> r.title,
       amount         |-> r.amount,
       mes_ano        |-> to_period(r.date),
       tipo           |-> tipo_de(r.title),
       parcelado      |-> str_contains(r.title, PARCELA),
       num_parcela    |-> to_numeric(grupos[1]),
       total_parcelas |-> to_numeric(grupos[2]),
       categoria      |-> categoria_de(r.title)]

\* df.dropna(subset=['date']): the rows whose date parsed, in their order
dropna_date(rows) == SelectSeq(rows, LAMBDA r : r.date # NaT)

limpar_e_processar_dados(raw) ==
  LET datado == [i \in 1..Len(raw) |->
                   [index  |-> i,
                    date   |-> to_datetime(raw[i].date),
                    title  |-> raw[i].title,
                    amount |-> raw[i].amount]]
      validas == dropna_date(datado)
  IN  [k \in 1..Len(validas) |-> processar_linha(validas[k])]

(***************************************************************************)
(* Period aggregator                                                       *)
(***************************************************************************)
TOP_N == 5

RECURSIVE soma(_)
\* Series.sum() of the amount column; 0 for no rows
soma(rows) ==
  IF Len(rows) = 0 THEN 0 ELSE rows[1].amount + soma(Tail(rows))

remover(seq, k) == SubSeq(seq, 1, k - 1) \o SubSeq(seq, k + 1, Len(seq))

RECURSIVE sorted(_)
\* sorted() of a set of integers
sorted(S) ==
  IF S = {} THEN <<>>
  ELSE LET m == CHOOSE x \in S : \A y \in S : x <= y
       IN  <<m>> \o sorted(S \ {m})

\* sorted(df['mes_ano'].unique())
meses_de(d) == sorted({d[i].mes_ano : i \in 1..Len(d)})

\* df[df['mes_ano'] == mes]
do_mes(d, mes) == SelectSeq(d, LAMBDA r : r.mes_ano = mes)

\* df_mes[df_mes['tipo'] == tipo]
do_tipo(d, tipo) == SelectSeq(d, LAMBDA r : r.tipo = tipo)

\* the first n rows of the frame instead of the n largest
primeiras_n(n, rows) ==
  SubSeq(rows, 1, IF n <= Len(rows) THEN n ELSE Len(rows))

RECURSIVE nlargest(_, _)
\* DataFrame.nlargest(n, 'amount'), keep='first': descending by amount, equal
\* amounts in their order in the frame
nlargest(n, rows) ==
  IF n = 0 \/ Len(rows) = 0 THEN <<>>
  ELSE LET k == CHOOSE k \in 1..Len(rows) :
                  /\ \A j \in 1..Len(rows) : rows[j].amount <= rows[k].amount
                  /\ \A j \in 1..(k - 1) : rows[j].amount < rows[k].amount
       IN  <<rows[k]>> \o nlargest(n - 1, remover(rows, k))

\* the group keys of groupby('categoria') come sorted (sort=True)
ORDEM_CATEGORIAS ==
  <<"Alimentação", "Casa", "Combustível", "Farmácia", "Outros",
    "Serviços/Assinaturas", "Supermercado", "Transporte">>

\* compras.groupby('categoria')['amount'].sum(): one entry per category that
\* occurs among the rows
groupby_sum(rows) ==
  LET todas == [c \in 1..Len(ORDEM_CATEGORIAS) |->
                  [categoria |-> ORDEM_CATEGORIAS[c],
                   valor |-> soma(SelectSeq(rows,
                               LAMBDA r : r.categoria = ORDEM_CATEGORIAS[c]))]]
  IN  SelectSeq(todas,
        LAMBDA e : \E i \in 1..Len(rows) : rows[i].categoria = e.categoria)

RECURSIVE sort_values_desc(_)
\* Series.sort_values(ascending=False); equal totals keep the order of the keys
sort_values_desc(es) ==
  IF Len(es) = 0 THEN <<>>
  ELSE LET k == CHOOSE k \in 1..Len(es) :
                  /\ \A j \in 1..Len(es) : es[j].valor <= es[k].valor
                  /\ \A j \in 1..(k - 1) : es[j].valor < es[k].valor
       IN  <<es[k]>> \o sort_values_desc(remover(es, k))

\* the filter with >= in place of >
nao_negativos(es) == SelectSeq(es, LAMBDA e : e.valor >= 0)

\* gastos_cat[gastos_cat > 0]
positivos(es) == SelectSeq(es, LAMBDA e : e.valor > 0)

\* one iteration of the loop of imprimir_resumo_console
resumo_mes_console(d, mes) ==
  LET df_mes     == do_mes(d, mes)
      compras    == do_tipo(df_mes, "Compra")
      pagamentos == do_tipo(df_mes, "Pagamento")
      iofs       == do_tipo(df_mes, "IOF")
      total_compras    == soma(compras)
      total_iofs       == soma(iofs)
      total_pagamentos == soma(pagamentos)
      valor_fatura     == total_compras + total_iofs
      saldo_final      == total_pagamentos + valor_fatura
  IN  [mes              |-> mes,
       valor_fatura     |-> valor_fatura,
       total_pagamentos |-> total_pagamentos,
       saldo_final      |-> saldo_final,
       top_5_gastos     |-> nlargest(TOP_N, compras),
       gastos_cat       |-> positivos(sort_values_desc(groupby_sum(compras)))]

imprimir_resumo_console(d) ==
  LET meses == meses_de(d)
  IN  [k \in 1..Len(meses) |-> resumo_mes_console(d, meses[k])]

\* the month section with the balance computed as invoice minus payments
resumo_mes_subtrai(d, mes) ==
  LET r == resumo_mes_console(d, mes)
  IN  [r EXCEPT !.saldo_final = r.valor_fatura - r.total_pagamentos]

\* one iteration of the loop of gerar_pdf_resumo
resumo_mes_pdf(d, mes) ==
  LET df_mes     == do_mes(d, mes)
      compras    == do_tipo(df_mes, "Compra")
      pagamentos == do_tipo(df_mes, "Pagamento")
      iofs       == do_tipo(df_mes, "IOF")
      total_compras    == soma(compras)
      total_iofs       == soma(iofs)
      total_pagamentos == soma(pagamentos)
      valor_fatura     == total_compras + total_iofs
      saldo_final      == total_pagamentos + valor_fatura
  IN  [mes              |-> mes,
       valor_fatura     |-> valor_fatura,
       total_pagamentos |-> total_pagamentos,
       saldo_final      |-> saldo_final,
       top_5_gastos     |-> nlargest(TOP_N, compras),
       gastos_cat       |-> positivos(sort_values_desc(groupby_sum(compras)))]

\* the month sections of the story of gerar_pdf_resumo
story_meses(d) ==
  LET meses == meses_de(d)
  IN  [k \in 1..Len(meses) |-> resumo_mes_pdf(d, meses[k])]

date_key(date) == date.year * 10000 + date.month * 100 + date.day

\* df['date'].min(): NaT for no rows
date_min(d) ==
  IF Len(d) = 0 THEN NaT
  ELSE d[CHOOSE i \in 1..Len(d) :
           \A j \in 1..Len(d) : date_key(d[i].date) <= date_key(d[j].date)].date

\* df['date'].max(): NaT for no rows
date_max(d) ==
  IF Len(d) = 0 THEN NaT
  ELSE d[CHOOSE i \in 1..Len(d) :
           \A j \in 1..Len(d) : date_key(d[i].date) >= date_key(d[j].date)].date

\* NaT.strftime raises ValueError
strftime_raises(date) == date = NaT

\* the total spent over the purchases alone, the fees forgotten
total_gasto_so_compras(d) == soma(SelectSeq(d, LAMBDA r : r.tipo = "Compra"))

\* df[df['tipo'] != 'Pagamento']['amount'].sum()
total_gasto_de(d) == soma(SelectSeq(d, LAMBDA r : r.tipo # "Pagamento"))

\* df[df['tipo'] == 'Pagamento']['amount'].sum()
total_pago_de(d) == soma(SelectSeq(d, LAMBDA r : r.tipo = "Pagamento"))

\* the overall-period summary (dados_geral of gerar_pdf_resumo, the last
\* prints of main)
resumo_geral(d) ==
  [periodo          |-> <<date_min(d), date_max(d)>>,
   total_meses      |-> Cardinality({d[i].mes_ano : i \in 1..Len(d)}),
   total_transacoes |-> Len(d),
   total_gasto      |-> total_gasto_de(d),
   total_pago       |-> total_pago_de(d)]

(***************************************************************************)
(* Inputs: the frames processar_arquivos_nubank may hand to main           *)
(***************************************************************************)
\* pieces of title text
Fragmentos ==
  { <<"P", "a", "g", "a", "m", "e", "n", "t", "o", " ", "r", "e", "c", "e", "b", "i", "d", "o", " ">>,
    <<"I", "O", "F", " ">>,
    <<"U", "b", "e", "r", " ">>,
    <<"P", "o", "s", "t", "o", " ">>,
    <<"L", "o", "j", "a", " ">>,
    <<"P", "a", "r", "c", "e", "l", "a", " ">>,
    <<"2", "/", "6">>,
    <<"5", "/", "3">> }

RECURSIVE Titulos(_)
\* the titles made of at most n fragments
Titulos(n) ==
  IF n = 0 THEN {<<>>}
  ELSE LET menores == Titulos(n - 1)
       IN  menores \cup {t \o f : t \in menores, f \in Fragmentos}

\* strings of digits of an installment marker
Numeros == {<<"2">>, <<"6">>, <<"9", "9">>}

\* the installment markers 'Parcela N/M'
Marcadores == {PARCELA \o <<" ">> \o n \o <<"/">> \o m : n \in Numeros, m \in Numeros}

\* title t with installment marker m added
com_marcador(t, m) == t \o <<" ">> \o m

linha(date, title, amount) == [date |-> date, title |-> title, amount |-> amount]

\* one row, any title (a missing title too)
FramesTitulo ==
  {<<linha("2024-01-15", t, 10)>> : t \in Titulos(MaxFrags) \cup {NA}}

\* a title and the same title with an installment marker
FramesMarcador ==
  {<<linha("2024-01-15", t, 10), linha("2024-01-15", com_marcador(t, m), 10)>> :
     t \in Titulos(MaxFrags - 1), m \in Marcadores}

TitulosAgg ==
  { <<"P", "o", "s", "t", "o", " ", "S", "h", "e", "l", "l">>,
    <<"U", "b", "e", "r">>,
    <<"I", "O", "F">>,
    <<"P", "a", "g", "a", "m", "e", "n", "t", "o", " ", "r", "e", "c", "e", "b", "i", "d", "o">> }

LinhasAgg ==
  {linha(d, t, a) : d \in {"2024-01-15", "2024-02-03", "not-a-date"},
                    t \in TitulosAgg, a \in {-3, 2, 3}}

LinhasTop ==
  {linha("2024-01-31", <<"L", "o", "j", "a">>, a) : a \in {1, 2, 3}}

RECURSIVE Frames(_, _)
\* the frames of at most n rows drawn from linhas
Frames(linhas, n) ==
  IF n = 0 THEN {<<>>}
  ELSE LET menores == Frames(linhas, n - 1)
       IN  menores \cup {Append(f, l) : f \in menores, l \in linhas}

FramesAgg == Frames(LinhasAgg, MaxAggRows)

FramesTop == Frames(LinhasTop, MaxTopRows)

(***************************************************************************)
(* main: the steps after processar_arquivos_nubank returned a frame        *)
(***************************************************************************)
Init ==
  /\ pc = "lido"
  /\ df \in FramesTitulo \cup FramesMarcador \cup FramesAgg \cup FramesTop
  /\ console = <<>>
  /\ story = <<>>
  /\ geral_pdf = <<>>
  /\ geral_main = <<>>

\* main, step 2: df = limpar_e_processar_dados(df)
Limpar ==
  /\ pc = "lido"
  /\ df' = limpar_e_processar_dados(df)
  /\ pc' = "limpo"
  /\ UNCHANGED <<console, story, geral_pdf, geral_main>>

\* main, step 3: imprimir_resumo_console(df)
Imprimir ==
  /\ pc = "limpo"
  /\ console' = imprimir_resumo_console(df)
  /\ pc' = "console"
  /\ UNCHANGED <<df, story, geral_pdf, geral_main>>

\* main, step 4: gerar_pdf_resumo(df, nome_pdf); building dados_geral raises
\* when the frame has no rows, and the exception ends main
GerarPdf ==
  /\ pc = "console"
  /\ story' = story_meses(df)
  /\ IF strftime_raises(date_min(df)) \/ strftime_raises(date_max(df))
     THEN pc' = "erro" /\ geral_pdf' = geral_pdf
     ELSE pc' = "pdf" /\ geral_pdf' = resumo_geral(df)
  /\ UNCHANGED <<df, console, geral_main>>

\* main, the closing summary
ResumoGeral ==
  /\ pc = "pdf"
  /\ IF strftime_raises(date_min(df)) \/ strftime_raises(date_max(df))
     THEN pc' = "erro" /\ geral_main' = geral_main
     ELSE pc' = "fim" /\ geral_main' = resumo_geral(df)
  /\ UNCHANGED <<df, console, story, geral_pdf>>

Next == Limpar \/ Imprimir \/ GerarPdf \/ ResumoGeral

Spec == Init /\ [][Next]_vars

(***************************************************************************)
(* Properties                                                              *)
(***************************************************************************)
\* df holds the processed frame
limpo == pc # "lido"

\* imprimir_resumo_console has run
pos_console == pc \in {"console", "pdf", "fim", "erro"}

\* the month sections of gerar_pdf_resumo have been built
pos_pdf == pc \in {"pdf", "fim", "erro"}

linhas_df == 1..Len(df)

\* whether the title holds the text 'Parcela N/M'
tem_padrao(title) ==
  ~ isna(title) /\ \E i \in 1..Len(title) : match_at(title, i)

tem_parcelas(r) == r.num_parcela # NaN /\ r.total_parcelas # NaN

\* C1: type detection is first-match-wins in the order payment, fee,
\* purchase: tipo is 'Pagamento' if the title contains 'Pagamento recebido',
\* otherwise 'IOF' if it contains 'IOF', otherwise 'Compra'.
C1_TipoPrimeiroCasamento ==
  limpo =>
    \A i \in linhas_df :
      df[i].tipo = IF str_contains(df[i].title, PAGAMENTO_RECEBIDO) THEN "Pagamento"
                   ELSE IF str_contains(df[i].title, IOF) THEN "IOF"
                   ELSE "Compra"

\* C2: the installment fields are all present or all absent together:
\* parcelado is true exactly when num_parcela and total_parcelas hold
\* integers, and a title without the pattern has the flag false and both
\* fields absent.
C2_ParcelaTudoOuNada ==
  limpo =>
    \A i \in linhas_df :
      /\ df[i].parcelado <=> tem_parcelas(df[i])
      /\ ~ tem_padrao(df[i].title) =>
           /\ ~ df[i].parcelado
           /\ df[i].num_parcela = NaN
           /\ df[i].total_parcelas = NaN

\* C3: when the installment fields are present, 1 <= num_parcela <=
\* total_parcelas.
C3_ParcelaDentroDoTotal ==
  limpo =>
    \A i \in linhas_df :
      tem_parcelas(df[i]) =>
        1 <= df[i].num_parcela /\ df[i].num_parcela <= df[i].total_parcelas

\* C4: when no valid transaction remains after normalisation the run ends
\* without raising: no months, and an overall summary with zero totals.
C4_VazioSemErro ==
  (limpo /\ Len(df) = 0) =>
    /\ pc # "erro"
    /\ pos_console => console = <<>>
    /\ pc = "fim" => geral_main.total_gasto = 0 /\ geral_main.total_pago = 0

\* C5: adding an installment marker 'Parcela N/M' to a title changes
\* neither the tipo nor the categoria the title gets.
C5_MarcadorNaoInterfere ==
  limpo =>
    \A i \in linhas_df : \A j \in linhas_df : \A m \in Marcadores :
      df[j].title = com_marcador(df[i].title, m) =>
        df[j].tipo = df[i].tipo /\ df[j].categoria = df[i].categoria

entradas == 1..Len(CATEGORIAS_PALAVRAS_CHAVE)

\* the entries of the table one of whose keywords occurs in the lower-cased
\* title
casam(title) ==
  LET titulo_lower == lower(title)
  IN  {c \in entradas :
         \E j \in 1..Len(CATEGORIAS_PALAVRAS_CHAVE[c].palavras) :
           Contains(titulo_lower, CATEGORIAS_PALAVRAS_CHAVE[c].palavras[j])}

\* C6: a purchase gets the first category, in the order of
\* CATEGORIAS_PALAVRAS_CHAVE, one of whose keywords occurs in the lower-cased
\* title, and 'Outros' when none does; a title with 'uber' is never
\* 'Transporte'.
C6_PrimeiraCategoria ==
  limpo =>
    \A i \in linhas_df :
      df[i].tipo = "Compra" =>
        IF isna(df[i].title) THEN df[i].categoria = "Outros"
        ELSE LET cs == casam(df[i].title)
             IN  /\ cs = {} => df[i].categoria = "Outros"
                 /\ \A c \in cs :
                      (\A b \in cs : c <= b) =>
                        df[i].categoria = CATEGORIAS_PALAVRAS_CHAVE[c].categoria
                 /\ Contains(lower(df[i].title), <<"u", "b", "e", "r">>) =>
                      df[i].categoria # "Transporte"

\* a purchase whose title has a keyword of two categories got the earlier one
C6_Witness ==
  /\ limpo
  /\ \E i \in linhas_df :
       /\ df[i].tipo = "Compra"
       /\ casam(df[i].title) = {5, 6}
       /\ df[i].categoria = "Serviços/Assinaturas"

\* the rows of the month that are purchases
compras_do_mes(mes) ==
  {i \in linhas_df : df[i].mes_ano = mes /\ df[i].tipo = "Compra"}

minimo(a, b) == IF a <= b THEN a ELSE b

top_n_correto(resumos) ==
  \A k \in 1..Len(resumos) :
    LET top == resumos[k].top_5_gastos
        compras == compras_do_mes(resumos[k].mes)
    IN  /\ \A a \in 1..Len(top) : \E i \in compras : df[i] = top[a]
        /\ \A a \in 1..Len(top) : \A b \in 1..Len(top) :
             /\ a < b => top[a].amount >= top[b].amount
             /\ a # b => top[a].index # top[b].index
        /\ Len(top) = minimo(TOP_N, Cardinality(compras))
        /\ \A i \in compras :
             (\A a \in 1..Len(top) : top[a].index # df[i].index) =>
               \A a \in 1..Len(top) : df[i].amount <= top[a].amount

\* C7: for every month the top-5 list holds only purchases of that month,
\* is sorted descending by amount, has min(5, number of purchases) entries
\* (so at most that many), and every purchase left out has an amount no
\* greater than the least amount in the list.
C7_TopN ==
  /\ pos_console => top_n_correto(console)
  /\ pos_pdf => top_n_correto(story)

\* a month with more than five purchases, one left out
C7_Witness ==
  /\ pc = "fim"
  /\ \E k \in 1..Len(console) :
       /\ Len(console[k].top_5_gastos) = TOP_N
       /\ Len(story[k].top_5_gastos) = TOP_N
       /\ Cardinality(compras_do_mes(console[k].mes)) > TOP_N
       /\ console[k].top_5_gastos[1].amount > console[k].top_5_gastos[TOP_N].amount

RECURSIVE soma_indices(_)
\* the sum of the amounts of a set of rows of df
soma_indices(I) ==
  IF I = {} THEN 0
  ELSE LET i == CHOOSE x \in I : TRUE
       IN  df[i].amount + soma_indices(I \ {i})

\* the purchases of the month in the category
compras_da_categoria(mes, c) ==
  {i \in compras_do_mes(mes) : df[i].categoria = c}

gastos_cat_correto(resumos) ==
  \A k \in 1..Len(resumos) :
    LET g == resumos[k].gastos_cat
        mes == resumos[k].mes
    IN  /\ \A a \in 1..Len(g) :
             g[a].valor = soma_indices(compras_da_categoria(mes, g[a].categoria))
        /\ {g[a].categoria : a \in 1..Len(g)} =
             {df[i].categoria : i \in
                {x \in linhas_df : soma_indices(compras_da_categoria(mes, df[x].categoria)) > 0}}
        /\ \A a \in 1..Len(g) : \A b \in 1..Len(g) :
             /\ a < b => g[a].valor >= g[b].valor
             /\ a # b => g[a].categoria # g[b].categoria

\* C8: for every month, category_totals maps each category to the sum of the
\* amounts of the month's purchases in it, holds exactly the categories whose
\* sum is strictly positive, and is listed in descending order of total.
C8_GastosPorCategoria ==
  /\ pos_console => gastos_cat_correto(console)
  /\ pos_pdf => gastos_cat_correto(story)

\* a month with two categories, listed by total and not by name
C8_Witness ==
  /\ pc = "fim"
  /\ \E k \in 1..Len(console) :
       /\ Len(console[k].gastos_cat) = 2
       /\ console[k].gastos_cat[1].categoria = "Serviços/Assinaturas"
       /\ console[k].gastos_cat[2].categoria = "Combustível"
       /\ console[k].gastos_cat[1].valor > console[k].gastos_cat[2].valor

\* C9: the console view and the document report compute the same rollups:
\* the same months in ascending order and, for each month, the same invoice
\* total, payments total, net balance, top-5 selection and category totals.
C9_ConsoleIgualPdf ==
  pos_pdf =>
    /\ Len(console) = Len(story)
    /\ \A k \in 1..Len(console) : \A l \in 1..Len(console) :
         k < l => console[k].mes < console[l].mes
    /\ \A k \in 1..Len(console) :
         /\ console[k].mes = story[k].mes
         /\ console[k].valor_fatura = story[k].valor_fatura
         /\ console[k].total_pagamentos = story[k].total_pagamentos
         /\ console[k].saldo_final = story[k].saldo_final
         /\ console[k].top_5_gastos = story[k].top_5_gastos
         /\ console[k].gastos_cat = story[k].gastos_cat

\* two months, one with a payment and a purchase
C9_Witness ==
  /\ pc = "fim"
  /\ Len(story) = 2
  /\ \E k \in 1..Len(story) :
       /\ story[k].total_pagamentos # 0
       /\ story[k].saldo_final # story[k].valor_fatura - story[k].total_pagamentos
  /\ \E k \in 1..Len(story) :
       /\ Len(story[k].top_5_gastos) > 0
       /\ Len(story[k].gastos_cat) > 0

RECURSIVE soma_faturas(_)
soma_faturas(resumos) ==
  IF Len(resumos) = 0 THEN 0
  ELSE resumos[1].valor_fatura + soma_faturas(Tail(resumos))

RECURSIVE soma_pagamentos(_)
soma_pagamentos(resumos) ==
  IF Len(resumos) = 0 THEN 0
  ELSE resumos[1].total_pagamentos + soma_pagamentos(Tail(resumos))

geral_correto(geral) ==
  /\ geral.total_gasto = soma_faturas(console)
  /\ geral.total_pago = soma_pagamentos(console)
  /\ geral.total_gasto + geral.total_pago = soma_indices(linhas_df)

\* C10: the overall total_gasto equals the sum of the months' invoice totals
\* and the overall total_pago the sum of the months' payments: every valid
\* row is in exactly one month and has one of the three types, and no row
\* with an unparseable date is counted.
C10_TotaisGeraisSomamMeses ==
  /\ pos_console =>
       \A i \in linhas_df :
         /\ df[i].date # NaT
         /\ df[i].tipo \in {"Compra", "Pagamento", "IOF"}
         /\ Cardinality({k \in 1..Len(console) : console[k].mes = df[i].mes_ano}) = 1
  /\ pc \in {"pdf", "fim"} => geral_correto(geral_pdf)
  /\ pc = "fim" => geral_correto(geral_main)

\* two months, a fee in one and a payment in the other
C10_Witness ==
  /\ pc = "fim"
  /\ Len(console) = 2
  /\ \E i \in linhas_df : df[i].tipo = "IOF"
  /\ \E i \in linhas_df : df[i].tipo = "Pagamento"
  /\ geral_main.total_gasto # 0
  /\ geral_main.total_pago # 0

====
